---- MODULE Spec2Model ----
(***************************************************************************)
(* Model of the docker engine of drone-runner-docker                       *)
(* (engine/engine_impl.go): Setup, Destroy and Run with its four stages    *)
(* create, start, tail and wait.  Every request the engine sends to the    *)
(* docker client is one step of the model; the client's answer is chosen   *)
(* nondeterministically, since the client is an external collaborator.     *)
(* Labels and registry credentials are carried through by the code         *)
(* without influencing control flow and are left out of the records.       *)
(***************************************************************************)
EXTENDS Integers, Sequences, FiniteSets, TLC

(* ---- bounds of the model ---- *)
MaxVolumes == 2
MaxSteps == 2

(* ---- values ---- *)
Nil == "nil"

\* a Go pointer is the empty set (nil) or a singleton holding the value
NilPtr == {}
Ptr(v) == {v}
Deref(p) == CHOOSE v \in p : TRUE

PullDefault == "default"
PullAlways == "always"
PullNever == "never"
PullPolicies == {PullDefault, PullAlways, PullNever}

VolNames == <<"v1", "v2", "v3", "v4">>
StepNames == <<"s1", "s2", "s3", "s4">>
NetworkID == "net0"
OSValues == {"linux", "windows", "darwin"}
Mediums == {"disk", "memory"}
ExitCodes == {0, 137}

\* image references as token sequences: name [":" tag]
Images == { <<"app">>, <<"app", ":", "latest">>, <<"app", ":", "1.4.0">>, <<"app", ":">> }

\* the volumes a Spec may carry at position i: a non-EmptyDir volume or an
\* EmptyDir with a medium; identifiers are unique within a Spec
VolumeAt(i) ==
  { [EmptyDir |-> NilPtr] }
  \cup { [EmptyDir |-> Ptr([ID |-> VolNames[i], Medium |-> m])] : m \in Mediums }

VolumeSeqs ==
  UNION { { s \in [1..n -> UNION { VolumeAt(i) : i \in 1..MaxVolumes }] :
              \A i \in 1..n : s[i] \in VolumeAt(i) } : n \in 0..MaxVolumes }

StepSeqs == { [i \in 1..n |-> [ID |-> StepNames[i]]] : n \in 0..MaxSteps }

Specs ==
  [ Platform : [OS : OSValues], Volumes : VolumeSeqs,
    Network : [ID : {NetworkID}], Steps : StepSeqs ]

\* the Step values a caller may hand to Run
StepInputs(spec) ==
  { [ID |-> spec.Steps[i].ID, Image |-> img, Pull |-> p] :
      i \in 1..Len(spec.Steps), img \in Images, p \in PullPolicies }

NoStep == [ID |-> Nil, Image |-> <<>>, Pull |-> PullDefault]

VARIABLES
  spec,      \* the Spec the caller passes to every call
  op,        \* the engine call in progress or last finished
  step,      \* Run's step argument
  pc,        \* position inside the call
  idx,       \* loop index of Setup / Destroy
  calls,     \* requests sent to the docker client by the current call
  sig,       \* wait: the channel of ContainerWait that delivered
  cancelled, \* the caller cancelled the call's context
  info,      \* wait: result of ContainerInspect
  ret,       \* the call's return value
  copier,    \* tail: the log-copy goroutine started by the latest Run
  env        \* the engine's surroundings, when they are followed: the caller's
             \* progress through the pipeline and the resources of the daemon

vars == <<spec, op, step, pc, idx, calls, sig, cancelled, info, ret, copier, env>>

NoInfo == [Running |-> FALSE, ExitCode |-> -1, OOMKilled |-> FALSE]

\* the value of ret while no call has returned
NoRet == [err |-> Nil, state |-> NilPtr]

\* a pipeline not yet set up and a daemon holding no resource; ever collects
\* what was created since
NoResources(observed) ==
  [observed |-> observed, phase |-> "new",
   volumes |-> {}, networks |-> {}, containers |-> {}, running |-> {}, ever |-> {}]

Init ==
  /\ env = NoResources(FALSE)
  /\ spec \in Specs
  /\ op = Nil
  /\ step = NoStep
  /\ pc = "idle"
  /\ idx = 0
  /\ calls = <<>>
  /\ sig = Nil
  /\ cancelled = FALSE
  /\ info = NoInfo
  /\ ret = NoRet
  /\ copier = "none"

NoImage == <<>>

\* one request to the docker client and its answer
Call(o, id, arg, image, res) ==
  [op |-> o, id |-> id, arg |-> arg, image |-> image, res |-> res]

\* what a successful request does to the resources of the daemon
Apply(r, o, id) ==
  IF o = "VolumeCreate"
    THEN [r EXCEPT !.volumes = @ \cup {id}, !.ever = @ \cup {id}]
  ELSE IF o = "NetworkCreate"
    THEN [r EXCEPT !.networks = @ \cup {id}, !.ever = @ \cup {id}]
  ELSE IF o = "ContainerCreate"
    THEN [r EXCEPT !.containers = @ \cup {id}, !.ever = @ \cup {id}]
  ELSE IF o = "ContainerStart" THEN [r EXCEPT !.running = @ \cup {id}]
  ELSE IF o = "ContainerKill" THEN [r EXCEPT !.running = @ \ {id}]
  ELSE IF o = "ContainerRemove"
    THEN [r EXCEPT !.containers = @ \ {id}, !.running = @ \ {id}]
  ELSE IF o = "VolumeRemove" THEN [r EXCEPT !.volumes = @ \ {id}]
  ELSE IF o = "NetworkRemove" THEN [r EXCEPT !.networks = @ \ {id}]
  ELSE r

Issue(o, id, arg, image, res) ==
  /\ calls' = Append(calls, Call(o, id, arg, image, res))
  /\ env' = IF env.observed /\ res = "ok" THEN Apply(env, o, id) ELSE env

Results == {"ok", "error"}
Err(o, res) == IF res = "ok" THEN Nil ELSE "Err" \o o

\* variant: the log copy joined before a call returns
Return_Joined(err, st) ==
  /\ copier # "copying"
  /\ pc' = "done"
  /\ ret' = [err |-> err, state |-> st]

\* variant: a failure of the log copy reported by the call
Return_CopyError(err, st) ==
  /\ pc' = "done"
  /\ ret' = IF copier = "failed" THEN [err |-> "ErrStdCopy", state |-> NilPtr]
            ELSE [err |-> err, state |-> st]

\* the call returns err and st to its caller
Return(err, st) ==
  /\ pc' = "done"
  /\ ret' = [err |-> err, state |-> st]

\* the phase of the pipeline a call belongs to
PhaseOf(o) ==
  IF o = "Setup" THEN "set up" ELSE IF o = "Run" THEN "steps" ELSE "destroyed"

\* the engine keeps nothing between calls, so a call is followed on its
\* own, whichever it is.  A caller that is followed drives one pipeline:
\* Setup once, then, unless Setup failed, Run any number of times, then
\* Destroy once.
CanCall(o) ==
  /\ pc \in {"idle", "done"}
  /\ ~env.observed => pc = "idle"
  /\ env.observed =>
       \/ o = "Setup" /\ env.phase = "new"
       \/ o = "Run" /\ env.phase = "set up" /\ ret.err = Nil
       \/ o = "Run" /\ env.phase = "steps"
       \/ o = "Destroy" /\ env.phase \in {"set up", "steps"}

Enter(o, s) ==
  /\ CanCall(o)
  /\ env' = IF env.observed THEN [env EXCEPT !.phase = PhaseOf(o)] ELSE env
  /\ op' = o
  /\ step' = s
  /\ calls' = <<>>
  /\ info' = NoInfo
  /\ sig' = Nil
  /\ cancelled' = FALSE

\* a range loop with continue: the smallest index j >= i of vols that is
\* not in skipped, Len(vols)+1 if there is none
NextIndex(vols, i, skipped) ==
  LET rest == (i..Len(vols)) \ skipped
  IN  IF rest = {} THEN Len(vols) + 1
      ELSE CHOOSE j \in rest : \A k \in rest : j <= k

(* ---------------------------- Setup ---------------------------- *)

SetupSkip(vol) == vol.EmptyDir = NilPtr

\* variant: the platform not looked at
Driver_Bridge(os) == "bridge"

\* the network driver Setup chooses
Driver(os) == IF os = "windows" THEN "nat" ELSE "bridge"

\* variant: the error of VolumeCreate not looked at
SetupFails_Ignored(res) == FALSE

\* the error check after VolumeCreate
SetupFails(res) == res # "ok"

SetupLoop(i) ==
  /\ idx' = NextIndex(spec.Volumes, i, { j \in 1..Len(spec.Volumes) : SetupSkip(spec.Volumes[j]) })
  /\ pc' = IF idx' <= Len(spec.Volumes) THEN "VolumeCreate" ELSE "NetworkCreate"

Setup ==
  /\ Enter("Setup", NoStep)
  /\ SetupLoop(1)
  /\ ret' = NoRet
  /\ UNCHANGED <<spec, copier>>

Setup_VolumeCreate ==
  /\ op = "Setup" /\ pc = "VolumeCreate"
  /\ \E res \in Results :
       /\ Issue("VolumeCreate", Deref(spec.Volumes[idx].EmptyDir).ID, "local", NoImage, res)
       /\ IF SetupFails(res)
          THEN Return(Err("VolumeCreate", res), NilPtr) /\ UNCHANGED idx
          ELSE SetupLoop(idx + 1) /\ UNCHANGED ret
  /\ UNCHANGED <<spec, op, step, sig, cancelled, info, copier>>

Setup_NetworkCreate ==
  /\ op = "Setup" /\ pc = "NetworkCreate"
  /\ \E res \in Results :
       /\ Issue("NetworkCreate", spec.Network.ID, Driver(spec.Platform.OS), NoImage, res)
       /\ Return(Err("NetworkCreate", res), NilPtr)
  /\ UNCHANGED <<spec, op, step, idx, sig, cancelled, info, copier>>

(* ---------------------------- Destroy ---------------------------- *)

\* variant: the test of the medium inverted
DestroySkip_Inverted(vol) ==
  \/ vol.EmptyDir = NilPtr
  \/ Deref(vol.EmptyDir).Medium # "memory"

\* variant: the medium not looked at
DestroySkip_NoMedium(vol) == vol.EmptyDir = NilPtr

\* the volumes Destroy's loop passes over
DestroySkip(vol) ==
  \/ vol.EmptyDir = NilPtr
  \/ Deref(vol.EmptyDir).Medium = "memory"

\* variant: cleanup failures reported
DestroyResult_Report(errs) == IF errs = {} THEN Nil ELSE "ErrDestroy"

\* Destroy's return value; errs are the failed requests
DestroyResult(errs) == Nil

\* variant: the container-removal loop left out
DestroyLoop_NoRemovePhase(phase, i) ==
  LET nsteps == Len(spec.Steps)
      v == NextIndex(spec.Volumes, IF phase = "VolumeRemove" THEN i ELSE 1,
                     { j \in 1..Len(spec.Volumes) : DestroySkip(spec.Volumes[j]) })
  IN  IF phase = "ContainerKill" /\ i <= nsteps
        THEN pc' = "ContainerKill" /\ idx' = i
      ELSE IF v <= Len(spec.Volumes)
        THEN pc' = "VolumeRemove" /\ idx' = v
      ELSE pc' = "NetworkRemove" /\ idx' = v

\* position after the loop over spec.Steps / spec.Volumes at index i
DestroyLoop(phase, i) ==
  LET nsteps == Len(spec.Steps)
      v == NextIndex(spec.Volumes, IF phase = "VolumeRemove" THEN i ELSE 1,
                     { j \in 1..Len(spec.Volumes) : DestroySkip(spec.Volumes[j]) })
  IN  IF phase = "ContainerKill" /\ i <= nsteps
        THEN pc' = "ContainerKill" /\ idx' = i
      ELSE IF phase = "ContainerKill" /\ nsteps > 0
        THEN pc' = "ContainerRemove" /\ idx' = 1
      ELSE IF phase = "ContainerRemove" /\ i <= nsteps
        THEN pc' = "ContainerRemove" /\ idx' = i
      ELSE IF v <= Len(spec.Volumes)
        THEN pc' = "VolumeRemove" /\ idx' = v
      ELSE pc' = "NetworkRemove" /\ idx' = v

Destroy ==
  /\ Enter("Destroy", NoStep)
  /\ DestroyLoop("ContainerKill", 1)
  /\ ret' = NoRet
  /\ UNCHANGED <<spec, copier>>

Destroy_ContainerKill ==
  /\ op = "Destroy" /\ pc = "ContainerKill"
  /\ \E res \in Results : Issue("ContainerKill", spec.Steps[idx].ID, "9", NoImage, res)
  /\ DestroyLoop("ContainerKill", idx + 1)
  /\ UNCHANGED <<spec, op, step, sig, cancelled, info, ret, copier>>

Destroy_ContainerRemove ==
  /\ op = "Destroy" /\ pc = "ContainerRemove"
  /\ \E res \in Results :
       Issue("ContainerRemove", spec.Steps[idx].ID, "Force,RemoveVolumes", NoImage, res)
  /\ DestroyLoop("ContainerRemove", idx + 1)
  /\ UNCHANGED <<spec, op, step, sig, cancelled, info, ret, copier>>

Destroy_VolumeRemove ==
  /\ op = "Destroy" /\ pc = "VolumeRemove"
  /\ \E res \in Results :
       Issue("VolumeRemove", Deref(spec.Volumes[idx].EmptyDir).ID, "force", NoImage, res)
  /\ DestroyLoop("VolumeRemove", idx + 1)
  /\ UNCHANGED <<spec, op, step, sig, cancelled, info, ret, copier>>

Destroy_NetworkRemove ==
  /\ op = "Destroy" /\ pc = "NetworkRemove"
  /\ \E res \in Results : Issue("NetworkRemove", spec.Network.ID, "", NoImage, res)
  /\ Return(DestroyResult({ c \in 1..Len(calls') : calls'[c].res # "ok" }), NilPtr)
  /\ UNCHANGED <<spec, op, step, idx, sig, cancelled, info, copier>>

(* ---------------------------- Run ---------------------------- *)

\* the image reference resolver: a reference is a name, optionally followed
\* by ":" and a non-empty tag; the effective tag of an untagged reference
\* is "latest"
parseImage(image) ==
  LET malformed == ~(Len(image) = 1 \/ Len(image) = 3)
      tag == IF Len(image) = 3 THEN image[3] ELSE "latest"
  IN  [err |-> IF malformed THEN "ErrParse" ELSE Nil,
       latest |-> ~malformed /\ tag = "latest"]

\* variants of the pull decision: PullAlways forgotten / the tag ignored
ShouldPull_NoAlways(s, latest) ==
  s.Pull = PullDefault /\ latest

ShouldPull_AnyTag(s, latest) ==
  s.Pull = PullAlways \/ s.Pull = PullDefault

\* the decision to pull before the first creation attempt
ShouldPull(s, latest) ==
  s.Pull = PullAlways \/ (s.Pull = PullDefault /\ latest)

\* variants of the retry decision: the policy ignored / any failure retried
ShouldRetry_AnyPolicy(res, s) ==
  res = "notfound"

ShouldRetry_AnyError(res, s) ==
  res # "ok" /\ s.Pull # PullNever

\* the decision to pull and re-create after a failed creation
ShouldRetry(res, s) ==
  res = "notfound" /\ s.Pull # PullNever

CreateResults == {"ok", "notfound", "error"}
CreateErr(res) ==
  IF res = "ok" THEN Nil
  ELSE IF res = "notfound" THEN "ErrImageNotFound" ELSE "ErrContainerCreate"

\* variant: the error of start dropped
AfterStage_StartUnchecked(stage, err) ==
  IF stage = "start" THEN "ContainerLogs"
  ELSE IF err # Nil THEN "return"
  ELSE IF stage = "create" THEN "ContainerStart"
  ELSE IF stage = "tail" THEN "ContainerWait"
  ELSE "return"

\* Run's sequencing of the stages: the position after a stage returned err
AfterStage(stage, err) ==
  IF err # Nil THEN "return"
  ELSE IF stage = "create" THEN "ContainerStart"
  ELSE IF stage = "start" THEN "ContainerLogs"
  ELSE IF stage = "tail" THEN "ContainerWait"
  ELSE "return"

\* a stage of Run returned err (and, for wait, the State st)
StageReturns(stage, err, st) ==
  IF AfterStage(stage, err) = "return"
  THEN Return(err, st)
  ELSE pc' = AfterStage(stage, err) /\ UNCHANGED ret

Run ==
  /\ \E s \in StepInputs(spec) :
       /\ Enter("Run", s)
       /\ IF parseImage(s.Image).err # Nil
          THEN StageReturns("create", parseImage(s.Image).err, NilPtr)
          ELSE /\ pc' = IF ShouldPull(s, parseImage(s.Image).latest)
                        THEN "ImagePull" ELSE "ContainerCreate"
               /\ ret' = NoRet
  /\ copier' = "none"
  /\ idx' = 0
  /\ UNCHANGED spec

create_ImagePull ==
  /\ op = "Run" /\ pc = "ImagePull"
  /\ \E res \in Results :
       /\ Issue("ImagePull", step.ID, "", step.Image, res)
       /\ IF res # "ok"
          THEN StageReturns("create", Err("ImagePull", res), NilPtr)
          ELSE pc' = "ContainerCreate" /\ UNCHANGED ret
  /\ UNCHANGED <<spec, op, step, idx, sig, cancelled, info, copier>>

create_ContainerCreate ==
  /\ op = "Run" /\ pc = "ContainerCreate"
  /\ \E res \in CreateResults :
       /\ Issue("ContainerCreate", step.ID, "", step.Image, res)
       /\ IF ShouldRetry(res, step)
          THEN pc' = "RetryImagePull" /\ UNCHANGED ret
          ELSE StageReturns("create", CreateErr(res), NilPtr)
  /\ UNCHANGED <<spec, op, step, idx, sig, cancelled, info, copier>>

\* variant: the creation error kept when the pull fails
RetryPullErr_CreateErr(pullerr, err) == err

\* the error create returns when the pull before the retry fails
RetryPullErr(pullerr, err) == pullerr

\* variant: the container removed again when it cannot be started
start_CleanupOnFailure ==
  /\ op = "Run" /\ pc = "ContainerStart"
  /\ \E res \in Results :
       /\ calls' = IF res = "ok"
                   THEN Append(calls, Call("ContainerStart", step.ID, "", NoImage, res))
                   ELSE calls \o << Call("ContainerStart", step.ID, "", NoImage, res),
                                    Call("ContainerRemove", step.ID, "Force", NoImage, "ok") >>
       /\ env' = IF ~env.observed THEN env
                 ELSE IF res = "ok" THEN Apply(env, "ContainerStart", step.ID)
                 ELSE Apply(env, "ContainerRemove", step.ID)
       /\ IF res = "ok"
          THEN pc' = "ContainerLogs" /\ UNCHANGED ret
          ELSE pc' = "done" /\ ret' = [err |-> "ErrContainerStart", state |-> NilPtr]
  /\ UNCHANGED <<spec, op, step, idx, sig, cancelled, info, copier>>

create_RetryImagePull ==
  /\ op = "Run" /\ pc = "RetryImagePull"
  /\ \E res \in Results :
       /\ Issue("ImagePull", step.ID, "", step.Image, res)
       /\ IF res # "ok"
          THEN StageReturns("create",
                 RetryPullErr(Err("ImagePull", res), CreateErr(calls[Len(calls)].res)),
                 NilPtr)
          ELSE pc' = "RetryContainerCreate" /\ UNCHANGED ret
  /\ UNCHANGED <<spec, op, step, idx, sig, cancelled, info, copier>>

create_RetryContainerCreate ==
  /\ op = "Run" /\ pc = "RetryContainerCreate"
  /\ \E res \in CreateResults :
       /\ Issue("ContainerCreate", step.ID, "", step.Image, res)
       /\ StageReturns("create", CreateErr(res), NilPtr)
  /\ UNCHANGED <<spec, op, step, idx, sig, cancelled, info, copier>>

start ==
  /\ op = "Run" /\ pc = "ContainerStart"
  /\ \E res \in Results :
       /\ Issue("ContainerStart", step.ID, "", NoImage, res)
       /\ StageReturns("start", Err("ContainerStart", res), NilPtr)
  /\ UNCHANGED <<spec, op, step, idx, sig, cancelled, info, copier>>

\* the stream request; on success the copy is handed to a goroutine and
\* tail returns at once
tail ==
  /\ op = "Run" /\ pc = "ContainerLogs"
  /\ \E res \in Results :
       /\ Issue("ContainerLogs", step.ID, "Follow,ShowStdout,ShowStderr", NoImage, res)
       /\ copier' = IF res = "ok" THEN "copying" ELSE copier
       /\ StageReturns("tail", Err("ContainerLogs", res), NilPtr)
  /\ UNCHANGED <<spec, op, step, idx, sig, cancelled, info>>

\* the goroutine of tail: StdCopy ends (with or without an error, which is
\* dropped) and the stream is closed
StdCopy ==
  /\ copier = "copying"
  /\ copier' \in {"done", "failed"}
  /\ UNCHANGED <<spec, op, step, pc, idx, calls, sig, cancelled, info, ret, env>>

wait_ContainerWait ==
  /\ op = "Run" /\ pc = "ContainerWait"
  /\ Issue("ContainerWait", step.ID, "", NoImage, "ok")
  /\ pc' = "select"
  /\ UNCHANGED <<spec, op, step, idx, sig, cancelled, info, ret, copier>>

\* the caller cancels the context of a Run that is blocked in wait
Cancel ==
  /\ op = "Run" /\ pc = "select"
  /\ ~cancelled
  /\ cancelled' = TRUE
  /\ UNCHANGED <<spec, op, step, pc, idx, calls, sig, info, ret, copier, env>>

\* the docker client delivers on one of the two channels of ContainerWait:
\* the container exited ("wait") or waiting for it failed ("errc")
ContainerWait_delivers ==
  /\ op = "Run" /\ pc = "select" /\ sig = Nil
  /\ sig' \in {"wait", "errc"}
  /\ env' = IF env.observed /\ sig' = "wait"
                THEN [env EXCEPT !.running = @ \ {step.ID}] ELSE env
  /\ UNCHANGED <<spec, op, step, pc, idx, calls, cancelled, info, ret, copier>>

\* variant: a third case on the context
SelectReady_Context(s, c) == s # Nil \/ c

\* the select of wait has a case for each channel and none for the context
SelectReady(s, c) == s # Nil

\* variant: the value received from the error channel returned
WaitErr_Surfaced(s) == IF s = "errc" THEN "ErrContainerWait" ELSE Nil

\* both cases of the select are empty: what was received is dropped
WaitErr(s) == Nil

wait_select ==
  /\ op = "Run" /\ pc = "select"
  /\ SelectReady(sig, cancelled)
  /\ IF WaitErr(sig) # Nil
     THEN StageReturns("wait", WaitErr(sig), NilPtr)
     ELSE pc' = "ContainerInspect" /\ UNCHANGED ret
  /\ UNCHANGED <<spec, op, step, idx, calls, sig, cancelled, info, copier, env>>

\* variant: wait called again while the container is reported running
WaitAgain_WhileRunning(i) == i.Running

\* the branch on info.State.Running is empty
WaitAgain(i) == FALSE

\* variant: Exited taken from the inspection
WaitState_FromRunning(i) ==
  [Exited |-> ~i.Running, ExitCode |-> i.ExitCode, OOMKilled |-> i.OOMKilled]

\* the State wait builds from the inspection
WaitState(i) ==
  [Exited |-> TRUE, ExitCode |-> i.ExitCode, OOMKilled |-> i.OOMKilled]

wait_ContainerInspect ==
  /\ op = "Run" /\ pc = "ContainerInspect"
  /\ \E res \in Results :
       /\ Issue("ContainerInspect", step.ID, "", NoImage, res)
       /\ IF res # "ok"
          THEN /\ info' = NoInfo
               /\ StageReturns("wait", Err("ContainerInspect", res), NilPtr)
          ELSE /\ info' \in [Running : BOOLEAN, ExitCode : ExitCodes, OOMKilled : BOOLEAN]
               /\ IF WaitAgain(info')
                  THEN pc' = "ContainerWait" /\ UNCHANGED ret
                  ELSE StageReturns("wait", Nil, Ptr(WaitState(info')))
  /\ UNCHANGED <<spec, op, step, idx, sig, cancelled, copier>>

Next ==
  \/ Setup
  \/ Setup_VolumeCreate
  \/ Setup_NetworkCreate
  \/ Destroy
  \/ Destroy_ContainerKill
  \/ Destroy_ContainerRemove
  \/ Destroy_VolumeRemove
  \/ Destroy_NetworkRemove
  \/ Run
  \/ create_ImagePull
  \/ create_ContainerCreate
  \/ create_RetryImagePull
  \/ create_RetryContainerCreate
  \/ start
  \/ tail
  \/ StdCopy
  \/ wait_ContainerWait
  \/ Cancel
  \/ ContainerWait_delivers
  \/ wait_select
  \/ wait_ContainerInspect

Spec == Init /\ [][Next]_vars

\* the steps of a Run in progress: each is a client call that returns, or
\* the select once a channel delivered
RunStep ==
  \/ create_ImagePull
  \/ create_ContainerCreate
  \/ create_RetryImagePull
  \/ create_RetryContainerCreate
  \/ start
  \/ tail
  \/ wait_ContainerWait
  \/ wait_select
  \/ wait_ContainerInspect

\* the same engine with the resources of the daemon followed from an empty
\* daemon
\* the volumes of the pipeline that is followed: a disk EmptyDir, a memory
\* EmptyDir and a volume that is no EmptyDir, in turn
LifecycleVolumes ==
  [ i \in 1..MaxVolumes |->
      IF i % 3 = 1 THEN [EmptyDir |-> Ptr([ID |-> VolNames[i], Medium |-> "disk"])]
      ELSE IF i % 3 = 2 THEN [EmptyDir |-> Ptr([ID |-> VolNames[i], Medium |-> "memory"])]
      ELSE [EmptyDir |-> NilPtr] ]

InitLifecycle ==
  /\ env = NoResources(TRUE)
  /\ spec \in Specs
  /\ spec.Platform.OS = "linux"
  /\ spec.Volumes = LifecycleVolumes
  /\ Len(spec.Steps) = MaxSteps
  /\ op = Nil
  /\ step = NoStep
  /\ pc = "idle"
  /\ idx = 0
  /\ calls = <<>>
  /\ sig = Nil
  /\ cancelled = FALSE
  /\ info = NoInfo
  /\ ret = NoRet
  /\ copier = "none"

SpecLifecycle == InitLifecycle /\ [][Next]_vars

\* single calls on the pipeline with the volumes above: Run reads neither
\* the platform nor the volumes
InitRun ==
  /\ Init
  /\ spec.Platform.OS = "linux"
  /\ spec.Volumes = LifecycleVolumes

SpecRun == InitRun /\ [][Next]_vars

\* every client call returns and a channel of ContainerWait delivers
SpecFair ==
  /\ InitRun /\ [][Next]_vars
  /\ WF_vars(RunStep)
  /\ WF_vars(ContainerWait_delivers)

(* ============================ properties ============================ *)

Indexes(o) == { i \in 1..Len(calls) : calls[i].op = o }
Count(o) == Cardinality(Indexes(o))
Min(S) == CHOOSE i \in S : \A j \in S : i <= j
Last == calls[Len(calls)]
Returned(o) == op = o /\ pc = "done"

\* the effective tag of a well-formed reference is "latest"
TagIsLatest(image) ==
  \/ Len(image) = 1
  \/ Len(image) = 3 /\ image[3] = "latest"

\* C1: with pull policy Always, every ContainerCreate request of Run (the
\* first attempt and the retry) directly follows a successful ImagePull of
\* the step's image, for latest and for pinned tags.
C1_AlwaysPullsBeforeEveryCreate ==
  (op = "Run" /\ step.Pull = PullAlways) =>
    \A i \in Indexes("ContainerCreate") :
      /\ i > 1
      /\ calls[i - 1].op = "ImagePull"
      /\ calls[i - 1].res = "ok"
      /\ calls[i - 1].image = step.Image

C1_Witness ==
  /\ op = "Run" /\ step.Pull = PullAlways
  /\ step.Image = <<"app", ":", "1.4.0">>
  /\ Count("ContainerCreate") = 2
  /\ Count("ImagePull") = 2

\* C2: with pull policy Default, the first request of Run is an ImagePull
\* iff the effective tag is "latest" (an unset tag included); otherwise the
\* first request is the ContainerCreate, and when that creation succeeds
\* Run issues no ImagePull at all.
C2_DefaultPullsIffLatest ==
  (op = "Run" /\ step.Pull = PullDefault /\ calls # <<>>) =>
    /\ calls[1].op = "ImagePull" <=> TagIsLatest(step.Image)
    /\ ~TagIsLatest(step.Image) => calls[1].op = "ContainerCreate"
    /\ Indexes("ContainerCreate") # {} =>
         ((\E j \in Indexes("ImagePull") : j < Min(Indexes("ContainerCreate")))
            <=> TagIsLatest(step.Image))
    /\ (~TagIsLatest(step.Image) /\ calls[1].res = "ok") => Count("ImagePull") = 0

C2_Witness ==
  /\ Returned("Run") /\ step.Pull = PullDefault
  /\ step.Image = <<"app", ":", "1.4.0">>
  /\ ret.err = Nil
  /\ Count("ContainerCreate") = 1
  /\ Count("ImagePull") = 0

\* C3 as stated: with pull policy Never, a Run that returned has issued no
\* ImagePull and exactly one ContainerCreate.
C3_NeverCreatesExactlyOnce ==
  (Returned("Run") /\ step.Pull = PullNever) =>
    /\ Count("ImagePull") = 0
    /\ Count("ContainerCreate") = 1

\* C3 amended: with pull policy Never, Run issues no ImagePull and at most
\* one ContainerCreate: exactly one when the image reference is well formed,
\* none when it is malformed (Run returns the parse error before any
\* request).  An image-not-found failure of that creation is returned as
\* Run's error, with no State and no further request.
C3_NeverNoPullNoRetry ==
  (op = "Run" /\ step.Pull = PullNever) =>
    /\ Count("ImagePull") = 0
    /\ Count("ContainerCreate") <= 1
    /\ pc = "done" =>
         (Count("ContainerCreate") = 1 <=> Len(step.Image) \in {1, 3})
    /\ (calls # <<>> /\ calls[1].res = "notfound") =>
         /\ pc = "done" /\ Len(calls) = 1
         /\ ret.err = "ErrImageNotFound" /\ ret.state = NilPtr

C3_Witness ==
  /\ Returned("Run") /\ step.Pull = PullNever
  /\ step.Image = <<"app", ":", "1.4.0">>
  /\ Len(calls) = 1 /\ calls[1].op = "ContainerCreate" /\ calls[1].res = "notfound"

\* C4: one Run issues at most two ContainerCreate requests; the second only
\* after the first failed with image-not-found under a policy other than
\* Never; every other failure of the first attempt and every failure of the
\* second attempt ends Run with that error and no further request.
C4_AtMostOneRetry ==
  op = "Run" =>
    LET cs == Indexes("ContainerCreate") IN
    /\ Cardinality(cs) <= 2
    /\ Cardinality(cs) = 2 =>
         (calls[Min(cs)].res = "notfound" /\ step.Pull # PullNever)
    /\ \A i \in cs :
         (calls[i].res # "ok"
            /\ ~(i = Min(cs) /\ calls[i].res = "notfound" /\ step.Pull # PullNever)) =>
           /\ i = Len(calls) /\ pc = "done"
           /\ ret.state = NilPtr
           /\ ret.err = IF calls[i].res = "notfound"
                        THEN "ErrImageNotFound" ELSE "ErrContainerCreate"

C4_Witness ==
  /\ Returned("Run")
  /\ Count("ContainerCreate") = 2
  /\ Last.op = "ContainerCreate" /\ Last.res = "notfound"
  /\ ret.err = "ErrImageNotFound"

\* C5: Destroy returns no error, whichever of its ContainerKill,
\* ContainerRemove, VolumeRemove and NetworkRemove requests fail.
C5_DestroyReturnsNil ==
  Returned("Destroy") => (ret.err = Nil /\ ret.state = NilPtr)

C5_Witness ==
  /\ Returned("Destroy")
  /\ \A o \in {"ContainerKill", "ContainerRemove", "VolumeRemove", "NetworkRemove"} :
       \E i \in Indexes(o) : calls[i].res = "error"

EmptyDirs(medium) ==
  { Deref(spec.Volumes[i].EmptyDir).ID :
      i \in { j \in 1..Len(spec.Volumes) :
                /\ spec.Volumes[j].EmptyDir # NilPtr
                /\ (Deref(spec.Volumes[j].EmptyDir).Medium = "memory") = medium } }

\* C6: Destroy issues no VolumeRemove for a memory-medium EmptyDir volume and
\* exactly one VolumeRemove for every other EmptyDir volume of the spec.
C6_DestroySkipsMemoryVolumes ==
  op = "Destroy" =>
    /\ \A i \in Indexes("VolumeRemove") : calls[i].id \notin EmptyDirs(TRUE)
    /\ \A v \in EmptyDirs(FALSE) :
         LET n == Cardinality({ i \in Indexes("VolumeRemove") : calls[i].id = v })
         IN  n <= 1 /\ (pc = "done" => n = 1)
    /\ Count("VolumeRemove") <= Cardinality(EmptyDirs(FALSE))

C6_Witness ==
  /\ Returned("Destroy")
  /\ EmptyDirs(TRUE) # {} /\ EmptyDirs(FALSE) # {}
  /\ Count("VolumeRemove") = 1

Ids(o) == [ i \in 1..Count(o) |->
             calls[CHOOSE k \in Indexes(o) :
                     Cardinality({ j \in Indexes(o) : j <= k }) = i].id ]

DiskAndMemory ==
  spec.Volumes = << [EmptyDir |-> Ptr([ID |-> "v1", Medium |-> "disk"])],
                    [EmptyDir |-> Ptr([ID |-> "v2", Medium |-> "memory"])] >>

\* C7: a memory-medium EmptyDir is skipped by creation and by removal: for
\* the volumes v1 (disk) and v2 (memory), a Setup whose requests all succeed
\* issues exactly one VolumeCreate, for v1, and Destroy issues exactly one
\* VolumeRemove, for v1.
C7_MemoryVolumeSkippedBothWays ==
  DiskAndMemory =>
    /\ (Returned("Setup") /\ ret.err = Nil) => Ids("VolumeCreate") = <<"v1">>
    /\ Returned("Destroy") => Ids("VolumeRemove") = <<"v1">>

\* C8: the NetworkCreate request of Setup names the network with the spec's
\* network identifier and uses the driver "nat" when the platform OS is
\* "windows", "bridge" for every other OS.
C8_NetworkDriver ==
  op = "Setup" =>
    \A i \in Indexes("NetworkCreate") :
      /\ calls[i].id = spec.Network.ID
      /\ calls[i].arg \in {"nat", "bridge"}
      /\ calls[i].arg = "nat" <=> spec.Platform.OS = "windows"

C8_Witness ==
  /\ Returned("Setup")
  /\ spec.Platform.OS = "windows"
  /\ Count("NetworkCreate") = 1
  /\ Last.arg = "nat"

\* C9: wait inspects the container once; when the inspection succeeds Run
\* returns no error and a State with Exited = TRUE and the ExitCode and
\* OOMKilled of that inspection; when it fails Run returns the inspect
\* error and no State.
C9_WaitStateFromInspect ==
  op = "Run" =>
    /\ Count("ContainerInspect") <= 1
    /\ Count("ContainerInspect") = 1 =>
         /\ pc = "done" /\ Last.op = "ContainerInspect"
         /\ IF Last.res = "ok"
            THEN /\ ret.err = Nil
                 /\ ret.state = Ptr([Exited |-> TRUE, ExitCode |-> info.ExitCode,
                                      OOMKilled |-> info.OOMKilled])
            ELSE ret.err = "ErrContainerInspect" /\ ret.state = NilPtr
    /\ (pc = "done" /\ ret.err = Nil) =>
         (Count("ContainerInspect") = 1 /\ \A st \in ret.state : st.Exited)

C9_Witness ==
  /\ Returned("Run") /\ ret.err = Nil
  /\ info.Running /\ info.ExitCode = 137 /\ info.OOMKilled
  /\ ret.state # NilPtr

Stage(o) ==
  IF o \in {"ImagePull", "ContainerCreate"} THEN 1
  ELSE IF o = "ContainerStart" THEN 2
  ELSE IF o = "ContainerLogs" THEN 3
  ELSE 4

Before(o) ==
  IF o = "ContainerStart" THEN "ContainerCreate"
  ELSE IF o = "ContainerLogs" THEN "ContainerStart"
  ELSE IF o = "ContainerWait" THEN "ContainerLogs"
  ELSE "ContainerWait"

\* C10: the requests of Run follow the stage order create, start, tail,
\* wait; a request of a later stage directly follows the successful last
\* request of the stage before it; a failed request ends Run with that
\* request's error and no State (an image-not-found creation may instead be
\* followed by the retry); Run returns either a State or an error.
C10_StagesInOrder ==
  op = "Run" =>
    /\ \A i, j \in 1..Len(calls) : i < j => Stage(calls[i].op) <= Stage(calls[j].op)
    /\ \A o \in {"ContainerStart", "ContainerLogs", "ContainerWait", "ContainerInspect"} :
         /\ Count(o) <= 1
         /\ \A i \in Indexes(o) :
              i > 1 /\ calls[i - 1].op = Before(o) /\ calls[i - 1].res = "ok"
    /\ \A i \in 1..Len(calls) :
         calls[i].res # "ok" =>
           \/ /\ i = Len(calls) /\ pc = "done"
              /\ ret.state = NilPtr
              /\ ret.err = IF calls[i].res = "notfound" THEN "ErrImageNotFound"
                           ELSE "Err" \o calls[i].op
           \/ /\ calls[i].op = "ContainerCreate" /\ calls[i].res = "notfound"
              /\ i < Len(calls) => calls[i + 1].op = "ImagePull"
              /\ i = Len(calls) => pc = "RetryImagePull"
    /\ pc = "done" => (ret.err = Nil <=> ret.state # NilPtr)

C10_Witness ==
  /\ Returned("Run") /\ calls # <<>>
  /\ Last.op = "ContainerStart" /\ Last.res = "error"
  /\ ret.err = "ErrContainerStart" /\ ret.state = NilPtr
  /\ Count("ContainerLogs") = 0

\* the identifiers of the EmptyDir volumes of the spec, in order
EmptyDirSeq ==
  LET vs == SelectSeq(spec.Volumes, LAMBDA v : v.EmptyDir # NilPtr)
  IN  [ i \in 1..Len(vs) |-> Deref(vs[i].EmptyDir).ID ]

\* C11: Setup stops at its first failing request and returns that error:
\* a failed request is the last one, Setup issues nothing but VolumeCreate
\* and NetworkCreate (no removal of what it created), and NetworkCreate
\* comes only after a successful VolumeCreate for every EmptyDir volume.
C11_SetupAbortsOnFirstFailure ==
  op = "Setup" =>
    /\ \A i \in 1..Len(calls) :
         /\ calls[i].op \in {"VolumeCreate", "NetworkCreate"}
         /\ calls[i].res # "ok" =>
              /\ i = Len(calls) /\ pc = "done"
              /\ ret.err = "Err" \o calls[i].op
    /\ \A i \in Indexes("NetworkCreate") :
         /\ i = Len(EmptyDirSeq) + 1
         /\ \A j \in 1..(i - 1) :
              /\ calls[j].op = "VolumeCreate" /\ calls[j].res = "ok"
              /\ calls[j].id = EmptyDirSeq[j]
    /\ (pc = "done" /\ ret.err = Nil) =>
         (Count("NetworkCreate") = 1 /\ \A i \in 1..Len(calls) : calls[i].res = "ok")

C11_Witness ==
  /\ Returned("Setup")
  /\ Len(EmptyDirSeq) = 2
  /\ Len(calls) = 1 /\ calls[1].op = "VolumeCreate" /\ calls[1].res = "error"
  /\ ret.err = "ErrVolumeCreate"

\* the requests of a complete Destroy, in order
DestroyPlan ==
  LET steps == spec.Steps
      vs == SelectSeq(spec.Volumes,
                      LAMBDA v : v.EmptyDir # NilPtr /\ Deref(v.EmptyDir).Medium # "memory")
  IN  [ i \in 1..Len(steps) |-> [op |-> "ContainerKill", id |-> steps[i].ID, arg |-> "9"] ]
      \o [ i \in 1..Len(steps) |->
             [op |-> "ContainerRemove", id |-> steps[i].ID, arg |-> "Force,RemoveVolumes"] ]
      \o [ i \in 1..Len(vs) |->
             [op |-> "VolumeRemove", id |-> Deref(vs[i].EmptyDir).ID, arg |-> "force"] ]
      \o << [op |-> "NetworkRemove", id |-> spec.Network.ID, arg |-> ""] >>

\* C13: Destroy issues ContainerKill for every step, then ContainerRemove
\* (forced, with volume cleanup) for every step, then VolumeRemove for every
\* non-memory EmptyDir volume, then one NetworkRemove; the requests issued so
\* far are always a prefix of that plan whatever their results, and Destroy
\* returns exactly when the whole plan was issued.
C13_DestroyPhases ==
  op = "Destroy" =>
    /\ Len(calls) <= Len(DestroyPlan)
    /\ \A i \in 1..Len(calls) :
         /\ calls[i].op = DestroyPlan[i].op
         /\ calls[i].id = DestroyPlan[i].id
         /\ calls[i].arg = DestroyPlan[i].arg
    /\ pc = "done" <=> Len(calls) = Len(DestroyPlan)
    /\ pc # "done" => pc = DestroyPlan[Len(calls) + 1].op

C13_Witness ==
  /\ Returned("Destroy")
  /\ Len(spec.Steps) = 2
  /\ EmptyDirs(TRUE) # {} /\ EmptyDirs(FALSE) # {}
  /\ Len(calls) = 6
  /\ \A i \in 1..Len(calls) : calls[i].res = "error"

\* C14: a failed ImagePull is the last request of Run and Run returns the
\* pull error with no State: after a failed proactive pull no
\* ContainerCreate is issued, after a failed pull that followed an
\* image-not-found creation no second ContainerCreate is issued and the
\* error is the pull error, not the not-found error.
C14_PullFailureIsFatal ==
  op = "Run" =>
    \A i \in Indexes("ImagePull") :
      calls[i].res # "ok" =>
        /\ i = Len(calls) /\ pc = "done"
        /\ ret.err = "ErrImagePull" /\ ret.state = NilPtr
        /\ Count("ContainerCreate") = (IF i = 1 THEN 0 ELSE 1)

C14_Witness ==
  /\ Returned("Run") /\ Len(calls) >= 2
  /\ calls[Len(calls) - 1].op = "ContainerCreate" /\ calls[Len(calls) - 1].res = "notfound"
  /\ Last.op = "ImagePull" /\ Last.res = "error"
  /\ ret.err = "ErrImagePull"

WaitPositions == {"ContainerWait", "select", "ContainerInspect"}

\* C15: the log copy started by tail runs concurrently with wait and Run
\* never joins it: while the copy is running it can take a step at every
\* position of wait, and every step of wait is enabled without the copy
\* having finished (at the select, once a channel delivered).
C15_CopyNotJoined ==
  (op = "Run" /\ pc \in WaitPositions) =>
    /\ copier # "none"
    /\ copier = "copying" =>
         /\ ENABLED StdCopy
         /\ pc = "ContainerWait" => ENABLED wait_ContainerWait
         /\ (pc = "select" /\ sig # Nil) => ENABLED wait_select
         /\ pc = "ContainerInspect" => ENABLED wait_ContainerInspect

\* Run returned a State while the copy is still running
C15_Witness ==
  /\ Returned("Run")
  /\ ret.err = Nil /\ ret.state # NilPtr
  /\ copier = "copying"

\* what Run returns after wait, as a function of the client's answers
ResultOfWait ==
  IF Last.op = "ContainerInspect" /\ Last.res = "ok"
  THEN [err |-> Nil,
        state |-> Ptr([Exited |-> TRUE, ExitCode |-> info.ExitCode,
                       OOMKilled |-> info.OOMKilled])]
  ELSE [err |-> "ErrContainerInspect", state |-> NilPtr]

\* C16: once the log stream was obtained, what Run returns is determined by
\* the client's answers to wait and inspect alone, whether the copy
\* succeeded, failed or is still running; and a step of the copy changes
\* nothing of Run.
C16_ResultIndependentOfCopy ==
  /\ [](\A i \in Indexes("ContainerLogs") :
         (Returned("Run") /\ calls[i].res = "ok") =>
           (ret = ResultOfWait /\ copier \in {"copying", "done", "failed"}))
  /\ [][(copier = "copying" /\ copier' # "copying" /\ op' = op /\ calls' = calls)
          => UNCHANGED <<pc, sig, info, ret>>]_vars

C16_Witness ==
  /\ Returned("Run")
  /\ ret.err = Nil /\ ret.state # NilPtr
  /\ copier = "failed"

\* C17: a cancellation of the context does not let wait proceed: while no
\* channel of ContainerWait delivered, the select is not enabled, cancelled
\* or not, and wait is past the select only after a channel delivered.
C17_CancelDoesNotUnblockWait ==
  op = "Run" =>
    /\ (pc = "select" /\ sig = Nil) => ~ENABLED wait_select
    /\ (pc = "select" /\ sig # Nil) => ENABLED wait_select
    /\ (Count("ContainerWait") = 1 /\ pc # "select") => sig \in {"wait", "errc"}

C17_Witness ==
  /\ op = "Run" /\ pc = "select"
  /\ cancelled /\ sig = Nil

StepIds == { spec.Steps[i].ID : i \in 1..Len(spec.Steps) }
AllOk == \A i \in 1..Len(calls) : calls[i].res = "ok"

\* C12: when a Destroy in which every request succeeded returns, after a
\* Setup and any number of Run calls, the daemon holds neither the network
\* nor a non-memory EmptyDir volume of the spec nor a container of a step of
\* the spec.
C12_DestroyRemovesWhatWasCreated ==
  (env.observed /\ Returned("Destroy") /\ AllOk) =>
    /\ spec.Network.ID \notin env.networks
    /\ env.volumes \cap EmptyDirs(FALSE) = {}
    /\ env.containers \cap StepIds = {}
    /\ env.running \cap StepIds = {}

\* Setup had created the network and a disk volume, a Run had created a
\* container, and the successful Destroy has returned
C12_Witness ==
  /\ env.observed /\ Returned("Destroy") /\ AllOk
  /\ spec.Network.ID \in env.ever
  /\ env.ever \cap EmptyDirs(FALSE) # {}
  /\ env.ever \cap StepIds # {}

RunRequests ==
  {"ImagePull", "ContainerCreate", "ContainerStart", "ContainerLogs",
   "ContainerWait", "ContainerInspect"}

\* C20: Run issues none but its six kinds of request (no kill, no removal,
\* no volume or network request); when Run returns an error after a
\* successful ContainerCreate the container is still there; a container
\* disappears only by a ContainerRemove of Destroy; and a Destroy that
\* returned has sent ContainerKill and ContainerRemove for every step of the
\* spec, run or not.
C20_RunLeavesContainerToDestroy ==
  /\ [](op = "Run" => \A i \in 1..Len(calls) : calls[i].op \in RunRequests)
  /\ []((env.observed /\ Returned("Run") /\ ret.err # Nil
          /\ \E i \in Indexes("ContainerCreate") : calls[i].res = "ok")
         => step.ID \in env.containers)
  /\ [][(env.containers \ env'.containers # {})
          => (op = "Destroy" /\ pc = "ContainerRemove")]_vars
  /\ [](Returned("Destroy") =>
          \A s \in StepIds :
            /\ \E i \in Indexes("ContainerKill") : calls[i].id = s
            /\ \E i \in Indexes("ContainerRemove") : calls[i].id = s)

\* Run failed at the inspection of a container it created and started, and
\* which did not report its exit: the container is still there, running
C20_Witness ==
  /\ env.observed /\ Returned("Run")
  /\ ret.err = "ErrContainerInspect" /\ sig = "errc"
  /\ step.ID \in env.containers /\ step.ID \in env.running

====
